---- MODULE Spec2Model ----
(***************************************************************************)
(* A model of the clade extension framework (extensions/abstract.py), the  *)
(* CC dependency extractor (extensions/cc.py) and the Macros and Typedefs  *)
(* fact aggregators (extensions/macros.py, extensions/typedefs.py).        *)
(*                                                                         *)
(* A path is a sequence of components, the empty sequence being "/".  A    *)
(* file name handed to load_json / dump_data is a record                   *)
(* [abs, parts]: os.path.isabs(name) and the components of the name.       *)
(* Text is a sequence of one-character strings.                            *)
(***************************************************************************)
EXTENDS Naturals, Sequences, FiniteSets, TLC

VARIABLES
    dirs,       \* the directories that exist
    files,      \* path -> JSON document, for the regular files that exist
    result,     \* what the last artifact I/O call did
    nops,       \* number of artifact I/O calls made so far
    define,     \* Macros.define: file -> macro -> list of locations
    expand,     \* Macros.expand: file -> macro -> list of argument lists
    typedefs,   \* Typedefs.typedefs: scope file -> list of declarations
    fed,        \* the lines the raw-fact iterator has yielded so far
    requires,   \* type name -> the list of capability names the type requires
    raw,        \* the three line sequences of the raw-fact source
    stack,      \* the active parse calls, innermost first
    trace,      \* what the parse calls have done so far, in order
    ncalls,     \* number of top-level parse calls made so far
    subclassesOf,        \* class id -> cls.__subclasses__(), in order
    insts,               \* every Extension instance created so far, in order
    already_initialised, \* Extension.already_initialised: name -> instance
    cstack,              \* the active constructor calls, innermost first
    served,              \* the prerequisites handed out so far, in order
    outcome,             \* how the last top-level construction ended
    lookup,              \* what the last find_subclass call gave
    conf,       \* the configuration of the CC unit
    temp,       \* CC.temp_dir: command id -> text of <id>-deps.txt, if it exists
    done,       \* the commands parse_cmd was called on, with what it did
    stored      \* the files handed to Storage.add_file

fsVars == <<dirs, files>>
ioVars == <<result, nops>>
foldVars == <<define, expand, typedefs, fed>>
parseVars == <<requires, raw, stack, trace, ncalls>>
regVars == <<subclassesOf, insts, already_initialised, cstack, served, outcome, lookup>>
vars == <<dirs, files, result, nops, define, expand, typedefs, fed,
          requires, raw, stack, trace, ncalls,
          subclassesOf, insts, already_initialised, cstack, served, outcome, lookup,
          conf, temp, done, stored>>
ccVars == <<conf, temp, done, stored>>

\* what the steps of each specification leave alone
outsideIO == <<foldVars, parseVars, regVars, ccVars>>
outsideFold == <<fsVars, ioVars, parseVars, regVars, ccVars>>
outsideParse == <<ioVars, fed, regVars, ccVars>>
outsideReg == <<fsVars, ioVars, foldVars, raw, stack, trace, ncalls, ccVars>>
outsideCC == <<ioVars, foldVars, parseVars, regVars>>

(***************************************************************************)
(* Bounds                                                                  *)
(***************************************************************************)
MaxOps == 3
MaxLines == 4
MaxDefLines == 3
MaxCalls == 3
MaxInst == 3
MaxCmds == 2
MaxStops == 1
MaxDepLines == 2
MaxExpLines == 2
MaxLoad == 2
MaxDepth == 5

(***************************************************************************)
(* Paths                                                                   *)
(***************************************************************************)
\* abstract.py:42, os.path.abspath(work_dir): the working root
Root == <<"root">>

\* abstract.py:41-42: work_dir = <root>/<TypeName>
WorkDir(u) == Root \o <<u>>

Parent(p) == SubSeq(p, 1, Len(p) - 1)

\* os.makedirs creates the leaf and every missing ancestor
Prefixes(p) == { SubSeq(p, 1, k) : k \in 0..Len(p) }

Exists(d, f, p) == p \in d \/ p \in DOMAIN f

IsFile(f, p) == p \in DOMAIN f

IsParsedNever(d, f, u) == FALSE

\* abstract.py:85-87
IsParsedIn(d, f, u) == Exists(d, f, WorkDir(u))

IsParsed(u) == IsParsedIn(dirs, files, u)

\* abstract.py:97-98 and 115-116: a relative name is joined to work_dir
Resolve(u, name) == IF name.abs THEN name.parts ELSE WorkDir(u) \o name.parts

(***************************************************************************)
(* Data and its JSON form.  A Python value is [t, v] with t one of        *)
(* "list", "set", "dict"; a JSON document is [t, v] with t "array" (v a   *)
(* sequence) or "object" (v a function on strings).                        *)
(***************************************************************************)
None == [t |-> "none", v |-> <<>>]

PyList(s) == [t |-> "list", v |-> s]
PySet(S) == [t |-> "set", v |-> S]
PyDict(f) == [t |-> "dict", v |-> f]

PyEq(a, b) == a.t = b.t /\ a.v = b.v

Range(s) == { s[i] : i \in DOMAIN s }

\* the orders in which a set can be iterated
Orders(S) == { s \in [1..Cardinality(S) -> S] : Range(s) = S }

\* abstract.py:120, ujson.dump: a list or a set is written as an array (a
\* set in its iteration order), a dict as an object
Encodings(data) ==
    CASE data.t = "list" -> { [t |-> "array", v |-> data.v] }
      [] data.t = "set" -> { [t |-> "array", v |-> s] : s \in Orders(data.v) }
      [] data.t = "dict" -> { [t |-> "object", v |-> data.v] }

\* abstract.py:105, ujson.load: an array is read as a list, an object as a dict
Decode(doc) ==
    CASE doc.t = "array" -> PyList(doc.v)
      [] doc.t = "object" -> PyDict(doc.v)

(***************************************************************************)
(* Artifact I/O (Extension.load_json, Extension.dump_data)                 *)
(***************************************************************************)
WriteFile(f, path, doc) ==
    [p \in DOMAIN f \cup {path} |-> IF p = path THEN doc ELSE f[p]]

\* abstract.py:110-113: os.makedirs(self.work_dir), FileExistsError ignored
MakeWorkDir(d, u) == d \cup Prefixes(WorkDir(u))

\* abstract.py:119: open(file_name, "w") needs the containing directory
CanOpenForWrite(d, f, path) ==
    /\ Len(path) > 0
    /\ Parent(path) \in d
    /\ path \notin d

\* abstract.py:107-120
DumpData(d, f, u, data, name, doc) ==
    LET d1 == MakeWorkDir(d, u)
        path == Resolve(u, name)
    IN  IF CanOpenForWrite(d1, f, path)
        THEN [dirs |-> d1, files |-> WriteFile(f, path, doc), status |-> "ok", path |-> path]
        ELSE [dirs |-> d1, files |-> f,
              status |-> IF path \in d1 THEN "IsADirectoryError" ELSE "FileNotFoundError",
              path |-> path]

LoadJsonCreatesDir(d, f, u, name) ==
    LET path == Resolve(u, name)
    IN  IF IsFile(f, path)
        THEN [dirs |-> d, status |-> "ok", path |-> path, value |-> Decode(f[path])]
        ELSE [dirs |-> MakeWorkDir(d, u), status |-> "FileNotFoundError", path |-> path, value |-> None]

\* abstract.py:94-105
LoadJson(d, f, u, name) ==
    LET path == Resolve(u, name)
    IN  IF IsFile(f, path)
        THEN [dirs |-> d, status |-> "ok", path |-> path, value |-> Decode(f[path])]
        ELSE [dirs |-> d, status |-> "FileNotFoundError", path |-> path, value |-> None]

(***************************************************************************)
(* SpecIO: artifact I/O calls on the units of one working root             *)
(***************************************************************************)
IOUnits == {"Macros", "CC"}

Rel(parts) == [abs |-> FALSE, parts |-> parts]
Abs(parts) == [abs |-> TRUE, parts |-> parts]

IONames ==
    { Rel(<<"a.json">>), Rel(<<"deps", "1.json">>),
      Abs(<<"root", "b.json">>), Abs(<<"root", "Macros", "a.json">>),
      Abs(<<"root", "other", "c.json">>) }

IOData ==
    { PyList(<<"x", "y">>), PySet({"x", "y"}), PyDict([k \in {"m"} |-> <<"1">>]) }

NoResult ==
    [op |-> "none", unit |-> "", name |-> Rel(<<>>), data |-> None,
     status |-> "", path |-> <<>>, value |-> None, parsedBefore |-> FALSE]

InitFS ==
    /\ dirs = Prefixes(Root)
    /\ files = <<>>

\* macros.py:32-35, typedefs.py:32: the mappings start empty
InitFold ==
    /\ define = <<>>
    /\ expand = <<>>
    /\ typedefs = <<>>
    /\ fed = <<>>

\* macros.py:24, typedefs.py:24, cc.py:28: the requirement lists the code
\* declares; Info and Storage are not part of these sources and are taken to
\* require nothing
CodeRequires ==
    [u \in {"Macros", "Typedefs", "CC", "Info", "Storage"} |->
        CASE u \in {"Macros", "Typedefs"} -> <<"Info">>
          [] u = "CC" -> <<"Storage">>
          [] OTHER -> <<>>]

NoRaw == [defs |-> <<>>, exps |-> <<>>, typedefs |-> <<>>]

\* the classes of the extension modules: [id, name], the name being
\* cls.__name__
Class(module, name) == [id |-> module \o "." \o name, name |-> name]

ExtensionClass == Class("abstract", "Extension")
CommonClass == Class("common", "Common")
CCClass == Class("cc", "CC")
MacrosClass == Class("macros", "Macros")
TypedefsClass == Class("typedefs", "Typedefs")
InfoClass == Class("info", "Info")
StorageClass == Class("storage", "Storage")
OtherInfoClass == Class("info2", "Info")

AllClasses ==
    { ExtensionClass, CommonClass, CCClass, MacrosClass, TypedefsClass, InfoClass,
      StorageClass, OtherInfoClass }

\* abstract.py:128, cls.__subclasses__() once every module of the
\* extensions folder is imported: all modules present
TreeWith(direct) ==
    [c \in { k.id : k \in AllClasses } |->
        CASE c = ExtensionClass.id -> direct
          [] c = CommonClass.id -> << CCClass >>
          [] OTHER -> <<>>]

FullTree ==
    TreeWith(<< CommonClass, InfoClass, MacrosClass, StorageClass, TypedefsClass >>)

NoOutcome == [op |-> "none", cls |-> "", root |-> "", status |-> "", inst |-> 0]

NoLookup == [name |-> "", status |-> "", cls |-> ExtensionClass]

\* abstract.py:38: the registry starts empty
InitRegistry ==
    /\ insts = <<>>
    /\ already_initialised = <<>>
    /\ cstack = <<>>
    /\ served = <<>>
    /\ outcome = NoOutcome
    /\ lookup = NoLookup

\* cc.py:49-53: the defaults of the configuration
DefaultConf == [with_system_header_files |-> TRUE, store_deps |-> FALSE]

\* no command is parsed yet; abstract.py:44: temp_dir is a new directory
InitCC ==
    /\ conf = DefaultConf
    /\ temp = <<>>
    /\ done = <<>>
    /\ stored = {}

\* no parse call is active and nothing is constructed
InitIdle ==
    /\ requires = CodeRequires
    /\ raw = NoRaw
    /\ stack = <<>>
    /\ trace = <<>>
    /\ ncalls = 0
    /\ subclassesOf = FullTree
    /\ InitRegistry
    /\ InitCC

InitIO ==
    /\ InitFS
    /\ InitFold
    /\ InitIdle
    /\ result = NoResult
    /\ nops = 0

DumpDataOp(u, data, name) ==
    /\ nops < MaxOps
    /\ \E doc \in Encodings(data) :
        LET r == DumpData(dirs, files, u, data, name, doc)
        IN  /\ dirs' = r.dirs
            /\ files' = r.files
            /\ result' = [op |-> "dump_data", unit |-> u, name |-> name, data |-> data,
                          status |-> r.status, path |-> r.path, value |-> None,
                          parsedBefore |-> IsParsed(u)]
    /\ nops' = nops + 1
    /\ UNCHANGED outsideIO

LoadJsonOp(u, name) ==
    /\ nops < MaxOps
    /\ LET r == LoadJson(dirs, files, u, name)
       IN  /\ dirs' = r.dirs
           /\ files' = files
           /\ result' = [op |-> "load_json", unit |-> u, name |-> name, data |-> None,
                         status |-> r.status, path |-> r.path, value |-> r.value,
                         parsedBefore |-> IsParsed(u)]
    /\ nops' = nops + 1
    /\ UNCHANGED outsideIO

NextIO ==
    \/ \E u \in IOUnits, data \in IOData, name \in IONames : DumpDataOp(u, data, name)
    \/ \E u \in IOUnits, name \in IONames : LoadJsonOp(u, name)

SpecIO == InitIO /\ [][NextIO]_vars

\* what a reader of a stored value gets back: a set comes back as the list
\* of its elements, anything else as itself
ReadsBackAs(data, value) ==
    IF data.t = "set"
    THEN value.t = "list" /\ Range(value.v) = data.v /\ Len(value.v) = Cardinality(data.v)
    ELSE PyEq(value, data)

\* C9: load_json resolves a relative name against the unit's working
\* directory and takes an absolute name as is; when no file is at the
\* resolved path it raises FileNotFoundError and changes no directory and no
\* file, so is_parsed keeps its value; when the file is there it returns the
\* decoded document.
C9_LoadResolvesOrFailsCleanly ==
    [][ (nops' = nops + 1 /\ result'.op = "load_json") =>
        LET n == result'.name
            u == result'.unit
            path == IF n.abs THEN n.parts ELSE Root \o <<u>> \o n.parts
        IN  /\ result'.path = path
            /\ path \notin DOMAIN files =>
                  /\ result'.status = "FileNotFoundError"
                  /\ dirs' = dirs
                  /\ files' = files
                  /\ IsParsedIn(dirs', files', u) = IsParsed(u)
            /\ path \in DOMAIN files =>
                  /\ result'.status = "ok"
                  /\ result'.value = Decode(files[path])
                  /\ fsVars' = fsVars ]_vars

\* a load of a relative name failed on a unit that has no working directory
C9_Witness ==
    /\ result.op = "load_json"
    /\ ~result.name.abs
    /\ result.status = "FileNotFoundError"
    /\ ~result.parsedBefore
    /\ ~IsParsed(result.unit)

\* C10: dump_data on a unit without a working directory succeeds for every
\* relative name, a name with a sub-folder included: the directory that
\* holds the file exists afterwards and load_json of the name gives the
\* stored data back.
C10_StoreCreatesTargetDirectory ==
    (result.op = "dump_data" /\ ~result.name.abs /\ ~result.parsedBefore) =>
        /\ result.status = "ok"
        /\ Parent(result.path) \in dirs
        /\ LET r == LoadJson(dirs, files, result.unit, result.name)
           IN  r.status = "ok" /\ ReadsBackAs(result.data, r.value)

\* the part of C10 the code keeps: a name directly in the working directory
C10_StoreOfPlainNameSucceeds ==
    (result.op = "dump_data" /\ ~result.name.abs /\ Len(result.name.parts) = 1) =>
        /\ result.status = "ok"
        /\ LET r == LoadJson(dirs, files, result.unit, result.name)
           IN  r.status = "ok" /\ ReadsBackAs(result.data, r.value)

(***************************************************************************)
(* Text matching.  A line is a sequence of one-character strings; a fixed  *)
(* keyword of a pattern is kept as one element of the sequence.            *)
(***************************************************************************)
\* the characters \S does not match
IsSpace(c) == c \in {" ", "\t", "\n"}

\* the end of the longest run s[i..j] of characters accepted by \S
NonSpaceEnd(s, i) ==
    CHOOSE j \in (i - 1)..Len(s) :
        /\ \A k \in i..j : ~IsSpace(s[k])
        /\ j = Len(s) \/ IsSpace(s[j + 1])

\* the end of the longest run s[i..j] of characters other than a newline
LineEnd(s, i) ==
    CHOOSE j \in (i - 1)..Len(s) :
        /\ \A k \in i..j : s[k] # "\n"
        /\ j = Len(s) \/ s[j + 1] = "\n"

NoMatch == [ok |-> FALSE, g |-> <<>>]

IsAt(s, i, c) == i <= Len(s) /\ s[i] = c

\* macros.py:56,59: re.match(r"(\S*) (\S*) (\S*)", line).  Each \S* takes
\* its longest run: a shorter one would leave a non-space where the pattern
\* has a space.
MatchDefinition(line) ==
    LET e1 == NonSpaceEnd(line, 1)
    IN  IF ~IsAt(line, e1 + 1, " ") THEN NoMatch
        ELSE LET e2 == NonSpaceEnd(line, e1 + 2)
             IN  IF ~IsAt(line, e2 + 1, " ") THEN NoMatch
                 ELSE LET e3 == NonSpaceEnd(line, e2 + 2)
                      IN  [ok |-> TRUE,
                           g |-> << SubSeq(line, 1, e1),
                                    SubSeq(line, e1 + 2, e2),
                                    SubSeq(line, e2 + 2, e3) >>]

DictPut(d, k, v) == [x \in DOMAIN d \cup {k} |-> IF x = k THEN v ELSE d[x]]

DefineStepOverwrites(def, line) ==
    LET m == MatchDefinition(line)
    IN  IF ~m.ok THEN def
        ELSE LET file == m.g[1]
                 macro == m.g[2]
                 loc == m.g[3]
             IN  IF file \in DOMAIN def
                 THEN DictPut(def, file, DictPut(def[file], macro, <<loc>>))
                 ELSE DictPut(def, file, DictPut(<<>>, macro, <<loc>>))

\* macros.py:59-68: one iteration of the loop of __process_macros_definitions
DefineStep(def, line) ==
    LET m == MatchDefinition(line)
    IN  IF ~m.ok THEN def
        ELSE LET file == m.g[1]
                 macro == m.g[2]
                 loc == m.g[3]
             IN  IF file \in DOMAIN def /\ macro \in DOMAIN def[file]
                 THEN DictPut(def, file,
                              DictPut(def[file], macro, Append(def[file][macro], loc)))
                 ELSE IF file \in DOMAIN def
                 THEN DictPut(def, file, DictPut(def[file], macro, <<loc>>))
                 ELSE DictPut(def, file, DictPut(<<>>, macro, <<loc>>))

(***************************************************************************)
(* SpecDefine: the loop of Macros.__process_macros_definitions over the    *)
(* lines of iter_macros_definitions()                                      *)
(***************************************************************************)
Sp == <<" ">>
Nl == <<"\n">>

FileToks == { <<"a">>, <<"a", "b">> }
MacroToks == { <<"M">>, <<"N">> }
LocToks == { <<"1">>, <<"1", "2">> }

DefinitionLine(f, m, l) == f \o Sp \o m \o Sp \o l

WellFormedDefinitions ==
    { DefinitionLine(f, m, l) : f \in FileToks, m \in MacroToks, l \in LocToks }
    \cup { DefinitionLine(<<"a">>, <<"M">>, l) \o Nl : l \in LocToks }

DefinitionLines ==
    WellFormedDefinitions
    \cup { <<>>, <<"a">>, <<"a", " ", "M">>, <<"a", " ", " ", "1">>,
           <<"a", "\t", "M", " ", "1">> }

InitDefine == InitIO

\* macros.py:58-68: the iterator yields a line and the loop body folds it
ProcessDefinitionLine(line) ==
    /\ Len(fed) < MaxDefLines
    /\ define' = DefineStep(define, line)
    /\ fed' = Append(fed, line)
    /\ UNCHANGED <<outsideFold, expand, typedefs>>

NextDefine == \E line \in DefinitionLines : ProcessDefinitionLine(line)

SpecDefine == InitDefine /\ [][NextDefine]_vars

\* the (file, macro, location) a well-formed line states
StatedBy(line, f, m, l) ==
    line = DefinitionLine(f, m, l) \/ line = DefinitionLine(f, m, l) \o Nl

\* the positions of the lines fed for the pair (f, m)
PairPositions(f, m) ==
    { i \in DOMAIN fed : \E l \in LocToks : StatedBy(fed[i], f, m, l) }

NthOf(S, k) == CHOOSE i \in S : Cardinality({ j \in S : j <= i }) = k

StoredLocations(f, m) ==
    IF f \in DOMAIN define /\ m \in DOMAIN define[f] THEN define[f][m] ELSE <<>>

\* C3: when every line fed is a well-formed "<file> <macro> <location>",
\* define[file][macro] is the list of the locations of the lines of that
\* pair, in input order, duplicates kept.
C3_DefineFoldKeepsOrderAndDuplicates ==
    (\A i \in DOMAIN fed : fed[i] \in WellFormedDefinitions) =>
        \A f \in FileToks, m \in MacroToks :
            LET pos == PairPositions(f, m)
                got == StoredLocations(f, m)
            IN  /\ Len(got) = Cardinality(pos)
                /\ \A k \in 1..Len(got) : StatedBy(fed[NthOf(pos, k)], f, m, got[k])
                /\ (f \in DOMAIN define /\ m \in DOMAIN define[f]) <=> pos # {}

\* the same triple was fed twice, with another location of the pair between
C3_Witness ==
    /\ Len(fed) = 3
    /\ fed[1] = DefinitionLine(<<"a">>, <<"M">>, <<"1">>)
    /\ fed[2] = DefinitionLine(<<"a">>, <<"M">>, <<"1", "2">>) \o Nl
    /\ fed[3] = fed[1]
    /\ define[<<"a">>][<<"M">>] = << <<"1">>, <<"1", "2">>, <<"1">> >>

(***************************************************************************)
(* SpecTypedefs: the loop of Typedefs.__process_typedefs over the lines    *)
(* of iter_typedefs()                                                      *)
(***************************************************************************)
\* typedefs.py:49: the two keywords of the pattern
DeclKw == "declaration: typedef "
PathKw == "; path: "

\* typedefs.py:49,53: re.match(r"^declaration: typedef ([^\n]+); path: ([^\n]+)", line).
\* The first group is greedy: it ends at the last "; path: " of the line
\* that leaves both groups non-empty.
MatchTypedef(line) ==
    IF ~IsAt(line, 1, DeclKw) THEN NoMatch
    ELSE LET e == LineEnd(line, 2)
             K == { k \in 3..(e - 1) : line[k] = PathKw }
         IN  IF K = {} THEN NoMatch
             ELSE LET k == CHOOSE x \in K : \A y \in K : y <= x
                  IN  [ok |-> TRUE,
                       g |-> << SubSeq(line, 2, k - 1), SubSeq(line, k + 1, e) >>]

TypedefStepNoDedup(td, line) ==
    LET m == MatchTypedef(line)
    IN  IF ~m.ok THEN td
        ELSE LET declaration == m.g[1]
                 scope_file == m.g[2]
             IN  IF scope_file \notin DOMAIN td
                 THEN DictPut(td, scope_file, <<declaration>>)
                 ELSE DictPut(td, scope_file, Append(td[scope_file], declaration))

\* typedefs.py:53-60: one iteration of the loop of __process_typedefs
TypedefStep(td, line) ==
    LET m == MatchTypedef(line)
    IN  IF ~m.ok THEN td
        ELSE LET declaration == m.g[1]
                 scope_file == m.g[2]
             IN  IF scope_file \notin DOMAIN td
                 THEN DictPut(td, scope_file, <<declaration>>)
                 ELSE IF declaration \notin Range(td[scope_file])
                 THEN DictPut(td, scope_file, Append(td[scope_file], declaration))
                 ELSE td

DeclToks == { <<"x">>, <<"x", "y">> }
ScopeToks == { <<"a">>, <<"b">> }

TypedefLine(d, sc) == <<DeclKw>> \o d \o <<PathKw>> \o sc

WellFormedTypedefs ==
    { TypedefLine(d, sc) : d \in DeclToks, sc \in ScopeToks }
    \cup { TypedefLine(<<"x">>, <<"a">>) \o Nl }

TypedefLines ==
    WellFormedTypedefs
    \cup { <<>>, <<"x", PathKw, "a">>, <<DeclKw, PathKw, "a">>, <<DeclKw, "x", PathKw>>,
           <<DeclKw, "x", PathKw, "a", PathKw, "b">> }

\* typedefs.py:52-60: the iterator yields a line and the loop body folds it
ProcessTypedefLine(line) ==
    /\ Len(fed) < MaxLines
    /\ typedefs' = TypedefStep(typedefs, line)
    /\ fed' = Append(fed, line)
    /\ UNCHANGED <<outsideFold, define, expand>>

NextTypedefs == \E line \in TypedefLines : ProcessTypedefLine(line)

SpecTypedefs == InitDefine /\ [][NextTypedefs]_vars

\* the (declaration, scope file) a well-formed typedef line states
TypedefStatedBy(line, d, sc) ==
    line = TypedefLine(d, sc) \/ line = TypedefLine(d, sc) \o Nl

\* the positions of the lines fed that state declaration d for scope file sc
DeclPositions(d, sc) == { i \in DOMAIN fed : TypedefStatedBy(fed[i], d, sc) }

Least(S) == CHOOSE i \in S : \A j \in S : i <= j

\* C4: when every line fed is a typedef line, the list stored for a scope
\* file holds each declaration fed for that file exactly once, in the order
\* of first occurrence; a declaration fed under two scope files is in both.
C4_TypedefFoldDedupsPerFile ==
    (\A i \in DOMAIN fed : fed[i] \in WellFormedTypedefs) =>
        \A sc \in ScopeToks :
            LET seen == { d \in DeclToks : DeclPositions(d, sc) # {} }
                got == IF sc \in DOMAIN typedefs THEN typedefs[sc] ELSE <<>>
            IN  /\ sc \in DOMAIN typedefs <=> seen # {}
                /\ Range(got) = seen
                /\ \A j, k \in DOMAIN got : j # k => got[j] # got[k]
                /\ \A j, k \in DOMAIN got :
                      j < k => Least(DeclPositions(got[j], sc)) < Least(DeclPositions(got[k], sc))

\* a declaration was fed twice for one file, another one between, and once
\* more for a second file
C4_Witness ==
    /\ Len(fed) = 4
    /\ fed[1] = TypedefLine(<<"x", "y">>, <<"a">>)
    /\ fed[2] = TypedefLine(<<"x">>, <<"a">>) \o Nl
    /\ fed[3] = fed[1]
    /\ fed[4] = TypedefLine(<<"x", "y">>, <<"b">>)
    /\ typedefs[<<"a">>] = << <<"x", "y">>, <<"x">> >>
    /\ typedefs[<<"b">>] = << <<"x", "y">> >>

(***************************************************************************)
(* Macros.__process_macros_expansions                                      *)
(***************************************************************************)
\* macros.py:74: the keyword of the argument pattern
ArgKw == "actual_arg"

IsDigit(c) == c \in {"0", "1", "2", "3", "4", "5", "6", "7", "8", "9"}

\* the end of the longest run s[i..j] of digits
DigitEnd(s, i) ==
    CHOOSE j \in (i - 1)..Len(s) :
        /\ \A k \in i..j : IsDigit(s[k])
        /\ j = Len(s) \/ ~IsDigit(s[j + 1])

\* str.split(c)
RECURSIVE SplitOn(_, _)
SplitOn(s, c) ==
    IF \E i \in DOMAIN s : s[i] = c
    THEN LET i == CHOOSE x \in DOMAIN s : s[x] = c /\ \A y \in 1..(x - 1) : s[y] # c
         IN  <<SubSeq(s, 1, i - 1)>> \o SplitOn(SubSeq(s, i + 1, Len(s)), c)
    ELSE <<s>>

\* macros.py:73,77: re.match(r'(\S*) (\S*)(.*)', line)
MatchExpansion(line) ==
    LET e1 == NonSpaceEnd(line, 1)
    IN  IF ~IsAt(line, e1 + 1, " ") THEN NoMatch
        ELSE LET e2 == NonSpaceEnd(line, e1 + 2)
                 e3 == LineEnd(line, e2 + 1)
             IN  [ok |-> TRUE,
                  g |-> << SubSeq(line, 1, e1),
                           SubSeq(line, e1 + 2, e2),
                           SubSeq(line, e2 + 1, e3) >>]

\* macros.py:74,84: re.match(r' actual_arg\d+=(.*)', arg)
MatchActualArg(arg) ==
    IF ~(IsAt(arg, 1, " ") /\ IsAt(arg, 2, ArgKw)) THEN NoMatch
    ELSE LET d == DigitEnd(arg, 3)
         IN  IF d < 3 \/ ~IsAt(arg, d + 1, "=") THEN NoMatch
             ELSE [ok |-> TRUE, g |-> << SubSeq(arg, d + 2, LineEnd(arg, d + 2)) >>]

ActualArgsKeepsEntries(pieces) == pieces

\* macros.py:83-86: the values of the entries that match, in order
RECURSIVE ActualArgs(_)
ActualArgs(pieces) ==
    IF pieces = <<>> THEN <<>>
    ELSE LET m == MatchActualArg(Head(pieces))
         IN  (IF m.ok THEN <<m.g[1]>> ELSE <<>>) \o ActualArgs(Tail(pieces))

\* macros.py:77-93: one iteration of the loop of __process_macros_expansions
ExpandStep(exp, line) ==
    LET m == MatchExpansion(line)
    IN  IF ~m.ok THEN exp
        ELSE LET file == m.g[1]
                 macro == m.g[2]
                 args_str == m.g[3]
                 args == IF args_str # <<>> THEN ActualArgs(SplitOn(args_str, ",")) ELSE <<>>
             IN  IF file \in DOMAIN exp /\ macro \in DOMAIN exp[file]
                 THEN DictPut(exp, file,
                         DictPut(exp[file], macro,
                                 [args |-> Append(exp[file][macro].args, args)]))
                 ELSE IF file \in DOMAIN exp
                 THEN DictPut(exp, file, DictPut(exp[file], macro, [args |-> <<args>>]))
                 ELSE DictPut(exp, file, DictPut(<<>>, macro, [args |-> <<args>>]))

\* macros.py:58-68
RECURSIVE ProcessMacrosDefinitions(_, _)
ProcessMacrosDefinitions(def, lines) ==
    IF lines = <<>> THEN def
    ELSE ProcessMacrosDefinitions(DefineStep(def, Head(lines)), Tail(lines))

\* macros.py:76-93
RECURSIVE ProcessMacrosExpansions(_, _)
ProcessMacrosExpansions(exp, lines) ==
    IF lines = <<>> THEN exp
    ELSE ProcessMacrosExpansions(ExpandStep(exp, Head(lines)), Tail(lines))

\* typedefs.py:52-60
RECURSIVE ProcessTypedefs(_, _)
ProcessTypedefs(td, lines) ==
    IF lines = <<>> THEN td
    ELSE ProcessTypedefs(TypedefStep(td, Head(lines)), Tail(lines))

(***************************************************************************)
(* SpecParse: parse calls on the units Macros, Typedefs and Info of one    *)
(* working root.  A call is a frame [unit, pc, i, todo] on the stack.      *)
(***************************************************************************)
ParseUnits == {"Macros", "Typedefs", "Info", "Storage", "CC"}

\* the requirement lists of the units: those of the code, and lists for
\* Info, whose module is not part of these sources; with the last one Info
\* and Macros require each other
ParseRequiresTables ==
    { CodeRequires,
      [CodeRequires EXCEPT !["Info"] = <<"Storage", "CC">>],
      [CodeRequires EXCEPT !["Info"] = <<"Macros">>] }

FactUnits == {"Macros", "Typedefs"}

RECURSIVE Str(_)
Str(s) == IF s = <<>> THEN "" ELSE s[1] \o Str(Tail(s))

\* macros.py:33,36 and typedefs.py:33: the second argument of dump_data_by_key
define_folder == "define"
expand_folder == "expand"
typedefs_suffix == ".typedefs.json"

\* the raw-fact source: what iter_macros_definitions, iter_macros_expansions
\* and iter_typedefs yield
RawInputs ==
    { NoRaw,
      [defs |-> << DefinitionLine(<<"a">>, <<"M">>, <<"1">>) \o Nl,
                   DefinitionLine(<<"a", "b">>, <<"N">>, <<"1", "2">>) \o Nl >>,
       exps |-> << <<"a", " ", "M", " ", ArgKw, "1", "=", "x", ",", " ", ArgKw, "2", "=", "y", "\n">> >>,
       typedefs |-> << TypedefLine(<<"x">>, <<"a">>) \o Nl,
                       TypedefLine(<<"x">>, <<"b">>) \o Nl >>],
      [defs |-> << DefinitionLine(<<"a">>, <<"M">>, <<"1">>) >>,
       exps |-> <<>>,
       typedefs |-> << <<"x", PathKw, "a">> >>] }

Frame(u) == [unit |-> u, pc |-> "entry", i |-> 1, todo |-> <<>>]

Event(e, u, a) == [ev |-> e, unit |-> u, arg |-> a]

Top == Head(stack)

WithTop(f) == <<f>> \o Tail(stack)

\* one artifact per top-level key, in a folder of the working directory
Shards(d, folder, t, order) ==
    [ k \in DOMAIN order |->
        [name |-> Rel(<<folder, Str(order[k])>>), doc |-> [t |-> t, v |-> d[order[k]]]] ]

\* dump_data_by_key writes one shard: the folder of the shard is created
\* when it is missing
DumpShard(d, f, u, shard) ==
    LET path == Resolve(u, shard.name)
    IN  [dirs |-> d \cup Prefixes(Parent(path)),
         files |-> WriteFile(f, path, shard.doc),
         path |-> path]

NextPrerequisiteReversed(u, i) == requires[u][Len(requires[u]) + 1 - i]

\* abstract.py:82-83: self.extensions holds the required units in the order
\* init_extensions resolved them, the order of self.requires
NextPrerequisite(u, i) == requires[u][i]

SkipIfWorkDirIsFile(u) == WorkDir(u) \in DOMAIN files

\* macros.py:39, typedefs.py:36: if self.is_parsed()
SkipParsing(u) == IsParsed(u)

InitParse ==
    /\ InitFS
    /\ InitFold
    /\ result = NoResult
    /\ nops = 0
    /\ requires \in ParseRequiresTables
    /\ raw \in RawInputs
    /\ stack = <<>>
    /\ trace = <<>>
    /\ ncalls = 0
    /\ subclassesOf = FullTree
    /\ InitRegistry
    /\ InitCC

\* macros.py:102-106, typedefs.py:66-70: a driver calls parse on a unit
ParseCall(u) ==
    /\ stack = <<>>
    /\ ncalls < MaxCalls
    /\ stack' = <<Frame(u)>>
    /\ trace' = Append(trace, Event("call", u, <<>>))
    /\ ncalls' = ncalls + 1
    /\ UNCHANGED <<fsVars, define, expand, typedefs, requires, raw, outsideParse>>

\* macros.py:39-41, typedefs.py:36-38: the skip path
ParseSkip ==
    /\ stack # <<>>
    /\ Top.pc = "entry"
    /\ SkipParsing(Top.unit)
    /\ stack' = Tail(stack)
    /\ trace' = Append(trace, Event("skip", Top.unit, <<>>))
    /\ UNCHANGED <<fsVars, define, expand, typedefs, requires, raw, ncalls, outsideParse>>

\* macros.py:39, typedefs.py:36: not parsed yet
ParseEnter ==
    /\ stack # <<>>
    /\ Top.pc = "entry"
    /\ ~SkipParsing(Top.unit)
    /\ stack' = WithTop([Top EXCEPT !.pc = "prereq"])
    /\ UNCHANGED <<fsVars, define, expand, typedefs, requires, raw, trace, ncalls, outsideParse>>

\* abstract.py:80-83: parse of the next required unit; the interpreter
\* allows MaxDepth nested calls
ParsePrerequisite ==
    /\ stack # <<>>
    /\ Top.pc = "prereq"
    /\ Top.i <= Len(requires[Top.unit])
    /\ Len(stack) < MaxDepth
    /\ LET ext_name == NextPrerequisite(Top.unit, Top.i)
       IN  /\ stack' = <<Frame(ext_name)>> \o WithTop([Top EXCEPT !.i = Top.i + 1])
           /\ trace' = Append(trace, Event("call", ext_name, <<>>))
    /\ UNCHANGED <<fsVars, define, expand, typedefs, requires, raw, ncalls, outsideParse>>

\* macros.py:45-46, typedefs.py:42: the unit's own pass over the raw facts,
\* and the shards dump_data_by_key is about to write.  Info stores one
\* artifact; Storage, and CC on an empty batch of commands, store none.
ParseProcess ==
    /\ stack # <<>>
    /\ Top.pc = "prereq"
    /\ Top.i > Len(requires[Top.unit])
    /\ \/ /\ Top.unit = "Macros"
          /\ define' = ProcessMacrosDefinitions(define, raw.defs)
          /\ expand' = ProcessMacrosExpansions(expand, raw.exps)
          /\ \E o1 \in Orders(DOMAIN define'), o2 \in Orders(DOMAIN expand') :
                stack' = WithTop([Top EXCEPT !.pc = "dump",
                                    !.todo = Shards(define', define_folder, "object", o1)
                                             \o Shards(expand', expand_folder, "object", o2)])
          /\ trace' = trace \o << Event("pass", "Macros", <<>>),
                                  Event("read", "Macros", <<"definitions">>),
                                  Event("read", "Macros", <<"expansions">>) >>
          /\ UNCHANGED typedefs
       \/ /\ Top.unit = "Typedefs"
          /\ typedefs' = ProcessTypedefs(typedefs, raw.typedefs)
          /\ \E o \in Orders(DOMAIN typedefs') :
                stack' = WithTop([Top EXCEPT !.pc = "dump",
                                    !.todo = Shards(typedefs', typedefs_suffix, "array", o)])
          /\ trace' = trace \o << Event("pass", "Typedefs", <<>>),
                                  Event("read", "Typedefs", <<"typedefs">>) >>
          /\ UNCHANGED <<define, expand>>
       \/ /\ Top.unit = "Info"
          /\ stack' = WithTop([Top EXCEPT !.pc = "dump",
                                 !.todo = << [name |-> Rel(<<"info.json">>),
                                              doc |-> [t |-> "array", v |-> <<>>]] >>])
          /\ trace' = Append(trace, Event("pass", "Info", <<>>))
          /\ UNCHANGED <<define, expand, typedefs>>
       \/ /\ Top.unit \in {"Storage", "CC"}
          /\ stack' = WithTop([Top EXCEPT !.pc = "dump", !.todo = <<>>])
          /\ trace' = Append(trace, Event("pass", Top.unit, <<>>))
          /\ UNCHANGED <<define, expand, typedefs>>
    /\ UNCHANGED <<fsVars, requires, raw, ncalls, outsideParse>>

\* macros.py:49-50, typedefs.py:43: the next shard is written
ParseDump ==
    /\ stack # <<>>
    /\ Top.pc = "dump"
    /\ Top.todo # <<>>
    /\ LET r == DumpShard(dirs, files, Top.unit, Head(Top.todo))
       IN  /\ dirs' = r.dirs
           /\ files' = r.files
           /\ trace' = Append(trace, Event("write", Top.unit, r.path))
    /\ stack' = WithTop([Top EXCEPT !.todo = Tail(Top.todo)])
    /\ UNCHANGED <<define, expand, typedefs, requires, raw, ncalls, outsideParse>>

\* macros.py:51, typedefs.py:44: parse returns
ParseFinish ==
    /\ stack # <<>>
    /\ Top.pc = "dump"
    /\ Top.todo = <<>>
    /\ stack' = Tail(stack)
    /\ trace' = Append(trace, Event("return", Top.unit, <<>>))
    /\ UNCHANGED <<fsVars, define, expand, typedefs, requires, raw, ncalls, outsideParse>>

\* the process stops while the innermost parse call is storing its
\* artifacts: every active call is gone, and so are the mappings in memory;
\* the directories and files stay
ParseInterrupt ==
    /\ stack # <<>>
    /\ Top.pc = "dump"
    /\ Cardinality({ i \in DOMAIN trace : trace[i].ev = "interrupt" }) < MaxStops
    /\ stack' = <<>>
    /\ trace' = Append(trace, Event("interrupt", Top.unit,
                    [k \in DOMAIN Top.todo |-> Resolve(Top.unit, Top.todo[k].name)]))
    /\ define' = <<>>
    /\ expand' = <<>>
    /\ typedefs' = <<>>
    /\ UNCHANGED <<fsVars, requires, raw, ncalls, outsideParse>>

NextParse ==
    \/ \E u \in ParseUnits : ParseCall(u)
    \/ ParseSkip
    \/ ParseEnter
    \/ ParsePrerequisite
    \/ ParseProcess
    \/ ParseDump
    \/ ParseFinish

SpecParse == InitParse /\ [][NextParse]_vars

\* parse calls of a working root over several runs of the process, with the
\* requirement lists of the code
InitRetry == InitParse /\ requires = CodeRequires

NextRetry == NextParse \/ ParseInterrupt

SpecRetry == InitRetry /\ [][NextRetry]_vars

\* C2: a parse call on Macros or Typedefs whose working directory exists
\* returns at once: no prerequisite is called, no raw facts are read, no
\* artifact is written, and no directory, file or mapping changes.
C2_ParseOfParsedUnitDoesNothing ==
    [][ (/\ stack # <<>>
         /\ Top.pc = "entry"
         /\ Top.unit \in FactUnits
         /\ WorkDir(Top.unit) \in dirs)
        => (/\ stack' = Tail(stack)
            /\ trace' = Append(trace, Event("skip", Top.unit, <<>>))
            /\ dirs' = dirs
            /\ files' = files
            /\ define' = define
            /\ expand' = expand
            /\ typedefs' = typedefs) ]_vars

\* a second parse of Macros was skipped while its artifacts are on disk
C2_Witness ==
    /\ stack = <<>>
    /\ Len(trace) > 0
    /\ trace[Len(trace)] = Event("skip", "Macros", <<>>)
    /\ <<"root", "Macros", "define", "a">> \in DOMAIN files
    /\ \E i \in DOMAIN trace : trace[i].ev = "write" /\ trace[i].unit = "Macros"

\* the number of parse calls that are active after event p of the trace
Depth(p) ==
    LET stops == { q \in 1..p : trace[q].ev = "interrupt" }
        from == IF stops = {} THEN 1 ELSE (CHOOSE q \in stops : \A r \in stops : r <= q)
    IN  Cardinality({ q \in from..p : trace[q].ev = "call" })
        - Cardinality({ q \in from..p : trace[q].ev \in {"return", "skip"} })

\* the call event of the parse call that makes event p
CallOf(p) ==
    LET calls == { q \in 1..(p - 1) : /\ trace[q].ev = "call"
                                      /\ trace[q].unit = trace[p].unit
                                      /\ Depth(q) = Depth(p)
                                      /\ \A r \in q..p : trace[r].ev # "interrupt" }
    IN  CHOOSE q \in calls : \A r \in calls : r <= q

\* the parse calls made directly by the call at q, up to event p
DirectCalls(q, p) ==
    { r \in (q + 1)..(p - 1) : trace[r].ev = "call" /\ Depth(r) = Depth(q) + 1 }

\* C11: when a unit that is not parsed starts its own pass, its parse call
\* has called parse on each unit of its requirement list, once and in the
\* declared order, every one of these calls has ended, and the unit has
\* neither read raw facts nor written an artifact before.
C11_PrerequisitesParsedFirstInOrder ==
    \A p \in DOMAIN trace :
        trace[p].ev = "pass" =>
            LET u == trace[p].unit
                q == CallOf(p)
                kids == DirectCalls(q, p)
            IN  /\ Cardinality(kids) = Len(requires[u])
                /\ \A k \in 1..Len(requires[u]) :
                      trace[NthOf(kids, k)].unit = requires[u][k]
                /\ \A r \in kids :
                      \E e \in (r + 1)..(p - 1) :
                          /\ trace[e].ev \in {"return", "skip"}
                          /\ trace[e].unit = trace[r].unit
                          /\ Depth(e) = Depth(q)
                /\ \A r \in (q + 1)..(p - 1) :
                      ~(/\ trace[r].ev \in {"read", "write"}
                        /\ trace[r].unit = u
                        /\ Depth(r) = Depth(q))

\* Info, requiring Storage and CC, has run its pass and its parse returned
C11_Witness ==
    /\ stack = <<>>
    /\ requires["Info"] = <<"Storage", "CC">>
    /\ \E p \in DOMAIN trace : trace[p] = Event("pass", "Info", <<>>)
    /\ trace[Len(trace)] = Event("return", "Info", <<>>)

\* the events of the trace in which unit u starts its own pass
Passes(u) == { p \in DOMAIN trace : trace[p] = Event("pass", u, <<>>) }

\* C12: over any sequence of parse calls on the units of one working root,
\* no unit runs its own processing pass more than once.
C12_PassAtMostOncePerRoot ==
    \A u \in ParseUnits : Cardinality(Passes(u)) <= 1

\* what the code keeps of C12: a unit does not start a pass once it has
\* stored an artifact
C12_NoPassAfterFirstStore ==
    \A u \in ParseUnits : \A p \in Passes(u) :
        \A w \in 1..(p - 1) : ~(trace[w].ev = "write" /\ trace[w].unit = u)

\* the events in which the process stopped after unit u had stored an
\* artifact and before it had stored them all
StoppedMidWrite(u) ==
    { i \in DOMAIN trace :
        /\ trace[i].ev = "interrupt"
        /\ trace[i].unit = u
        /\ trace[i].arg # <<>>
        /\ \E w \in 1..(i - 1) : trace[w].ev = "write" /\ trace[w].unit = u }

\* C13: a unit is skipped exactly when its working directory exists, and a
\* unit that has stored an artifact has its working directory.  So after a
\* stop between the first and the last artifact write of a unit, every
\* later parse call on the unit is skipped, the unit runs no pass and
\* writes nothing, and the artifacts that were left are not on disk.
C13_InterruptedParseIsSkippedOnRetry ==
    /\ \A i \in DOMAIN trace :
          /\ trace[i].ev = "write" => WorkDir(trace[i].unit) \in dirs
          /\ (trace[i].ev = "skip" /\ trace[i].unit \in FactUnits) =>
                \E w \in 1..(i - 1) : trace[w].ev = "write" /\ trace[w].unit = trace[i].unit
    /\ \A u \in ParseUnits : IsParsed(u) <=> WorkDir(u) \in dirs
    /\ \A u \in ParseUnits : \A i \in StoppedMidWrite(u) :
          /\ \A j \in (i + 1)..Len(trace) :
                trace[j].unit = u => trace[j].ev \in {"call", "skip"}
          /\ \A j \in (i + 1)..Len(trace) :
                (trace[j].ev = "call" /\ trace[j].unit = u /\ j < Len(trace)) =>
                    trace[j + 1] = Event("skip", u, <<>>)
          /\ \A k \in DOMAIN trace[i].arg : trace[i].arg[k] \notin DOMAIN files

\* Macros stopped after its first artifact, and the retry was skipped
C13_Witness ==
    /\ stack = <<>>
    /\ StoppedMidWrite("Macros") # {}
    /\ trace[Len(trace)] = Event("skip", "Macros", <<>>)
    /\ <<"root", "Macros", "expand", "a">> \notin DOMAIN files

(***************************************************************************)
(* SpecReg: construction of extensions and resolution of prerequisites.   *)
(* A constructor call is a frame [inst, i] on cstack: the instance under   *)
(* construction and the position of init_extensions in its requires.       *)
(***************************************************************************)
\* abstract.py:122-132
RECURSIVE GetAllSubclasses(_, _)
RECURSIVE GetAllSubclassesOfEach(_, _)
GetAllSubclasses(tree, cls) == GetAllSubclassesOfEach(tree, tree[cls.id])

GetAllSubclassesOfEach(tree, direct) ==
    IF direct = <<>> THEN <<>>
    ELSE <<Head(direct)>> \o GetAllSubclasses(tree, Head(direct))
         \o GetAllSubclassesOfEach(tree, Tail(direct))

FindSubclassFallsBackToFirst(tree, ext_name) ==
    LET all == GetAllSubclasses(tree, ExtensionClass)
        hits == { i \in DOMAIN all : all[i].name = ext_name }
    IN  IF hits = {}
        THEN [status |-> "ok", cls |-> all[1]]
        ELSE [status |-> "ok", cls |-> all[Least(hits)]]

\* abstract.py:147-157: the first subclass whose __name__ is ext_name
FindSubclass(tree, ext_name) ==
    LET all == GetAllSubclasses(tree, ExtensionClass)
        hits == { i \in DOMAIN all : all[i].name = ext_name }
    IN  IF hits = {}
        THEN [status |-> "NotImplementedError", cls |-> ExtensionClass]
        ELSE [status |-> "ok", cls |-> all[Least(hits)]]

\* abstract.py:41-49: the fields of a new instance
NewInstance(c, root, origin) ==
    [cls |-> c, name |-> c.name, root |-> root, extensions |-> <<>>, origin |-> origin]

RegisterKeepsFirst(reg, name, inst) ==
    IF name \in DOMAIN reg THEN reg ELSE DictPut(reg, name, inst)

\* abstract.py:57: self.already_initialised[self.name] = self
Register(reg, name, inst) == DictPut(reg, name, inst)

\* abstract.py:46-47: a class without a requires attribute requires nothing
RequiresOf(name) == IF name \in DOMAIN requires THEN requires[name] ELSE <<>>

\* the extension modules that are present: all of them, all but info.py, and
\* a second module that defines a class named Info
ClassTrees ==
    { FullTree,
      TreeWith(<< CommonClass, MacrosClass, StorageClass, TypedefsClass >>),
      TreeWith(<< CommonClass, OtherInfoClass, InfoClass, MacrosClass, StorageClass,
                  TypedefsClass >>) }

\* the requirement lists: those of the code, and lists for the classes
\* whose modules are not part of these sources, two of them with a cycle
RequiresTables ==
    { CodeRequires,
      [CodeRequires EXCEPT !["Info"] = <<"Storage">>],
      [CodeRequires EXCEPT !["Storage"] = <<"Info", "MV">>],
      [CodeRequires EXCEPT !["Info"] = <<"Storage">>, !["Storage"] = <<"Info">>],
      [CodeRequires EXCEPT !["Info"] = <<"Info">>] }

Roots == {"root", "tmp"}

ConcreteNames == {"Macros", "Typedefs", "CC", "Info", "Storage"}

InitReg ==
    /\ InitFS
    /\ InitFold
    /\ result = NoResult
    /\ nops = 0
    /\ raw = NoRaw
    /\ stack = <<>>
    /\ trace = <<>>
    /\ ncalls = 0
    /\ requires \in RequiresTables
    /\ subclassesOf \in ClassTrees
    /\ InitRegistry
    /\ InitCC

CTop == Head(cstack)

RegisteredOnceConstructed(reg, ext_name) ==
    ext_name \in DOMAIN reg /\ \A k \in DOMAIN cstack : cstack[k].inst # reg[ext_name]

\* abstract.py:73: if ext_name in self.already_initialised
Registered(reg, ext_name) == ext_name \in DOMAIN reg

CRequires(frame) == RequiresOf(insts[frame.inst].name)

\* abstract.py:40-58: a driver constructs a unit
Construct(c, root) ==
    /\ cstack = <<>>
    /\ Len(insts) < MaxInst
    /\ insts' = Append(insts, NewInstance(c, root, "top"))
    /\ already_initialised' = Register(already_initialised, c.name, Len(insts) + 1)
    /\ cstack' = << [inst |-> Len(insts) + 1, i |-> 1] >>
    /\ outcome' = [op |-> "construct", cls |-> c.name, root |-> root,
                   status |-> "running", inst |-> Len(insts) + 1]
    /\ UNCHANGED <<requires, subclassesOf, served, lookup, outsideReg>>

\* abstract.py:72-75: the name is registered, the instance is reused
InitExtensionsReuse ==
    /\ cstack # <<>>
    /\ CTop.i <= Len(CRequires(CTop))
    /\ LET ext_name == CRequires(CTop)[CTop.i]
       IN  /\ Registered(already_initialised, ext_name)
           /\ insts' = [insts EXCEPT ![CTop.inst].extensions =
                            DictPut(@, ext_name, already_initialised[ext_name])]
           /\ served' = Append(served,
                   [by |-> CTop.inst, name |-> ext_name,
                    got |-> already_initialised[ext_name],
                    held |-> already_initialised[ext_name], created |-> FALSE,
                    active |-> \E k \in DOMAIN cstack :
                                  cstack[k].inst = already_initialised[ext_name]])
    /\ cstack' = << [CTop EXCEPT !.i = CTop.i + 1] >> \o Tail(cstack)
    /\ UNCHANGED <<requires, subclassesOf, already_initialised, outcome, lookup, outsideReg>>

\* abstract.py:77 and 156-157: find_subclass raises, and so do all the
\* constructors that are active
InitExtensionsUnresolved ==
    /\ cstack # <<>>
    /\ CTop.i <= Len(CRequires(CTop))
    /\ LET ext_name == CRequires(CTop)[CTop.i]
           r == FindSubclass(subclassesOf, ext_name)
       IN  /\ ~Registered(already_initialised, ext_name)
           /\ r.status # "ok"
           /\ lookup' = [name |-> ext_name, status |-> r.status, cls |-> r.cls]
           /\ outcome' = [outcome EXCEPT !.status = r.status]
    /\ cstack' = <<>>
    /\ UNCHANGED <<requires, subclassesOf, insts, already_initialised, served, outsideReg>>

\* abstract.py:77-78 and 40-58: the class is found and its constructor runs
\* with the same working root
InitExtensionsCreate ==
    /\ cstack # <<>>
    /\ CTop.i <= Len(CRequires(CTop))
    /\ Len(insts) < MaxInst
    /\ LET ext_name == CRequires(CTop)[CTop.i]
           r == FindSubclass(subclassesOf, ext_name)
       IN  /\ ~Registered(already_initialised, ext_name)
           /\ r.status = "ok"
           /\ lookup' = [name |-> ext_name, status |-> r.status, cls |-> r.cls]
           /\ insts' = Append(insts,
                   NewInstance(r.cls, insts[CTop.inst].root, "prerequisite"))
           /\ already_initialised' =
                   Register(already_initialised, r.cls.name, Len(insts) + 1)
    /\ cstack' = << [inst |-> Len(insts) + 1, i |-> 1] >> \o cstack
    /\ UNCHANGED <<requires, subclassesOf, served, outcome, outsideReg>>

\* abstract.py:78: the constructor of a prerequisite returned and the
\* requester keeps the new instance
PrerequisiteConstructed ==
    /\ Len(cstack) > 1
    /\ CTop.i > Len(CRequires(CTop))
    /\ LET parent == cstack[2]
           ext_name == CRequires(parent)[parent.i]
       IN  /\ insts' = [insts EXCEPT ![parent.inst].extensions =
                            DictPut(@, ext_name, CTop.inst)]
           /\ served' = Append(served,
                   [by |-> parent.inst, name |-> ext_name, got |-> CTop.inst,
                    held |-> already_initialised[ext_name], created |-> TRUE,
                    active |-> FALSE])
           /\ cstack' = << [parent EXCEPT !.i = parent.i + 1] >> \o Tail(Tail(cstack))
    /\ UNCHANGED <<requires, subclassesOf, already_initialised, outcome, lookup, outsideReg>>

\* abstract.py:58-60: the constructor the driver called returns
ConstructDone ==
    /\ Len(cstack) = 1
    /\ CTop.i > Len(CRequires(CTop))
    /\ cstack' = <<>>
    /\ outcome' = [outcome EXCEPT !.status = "ok"]
    /\ UNCHANGED <<requires, subclassesOf, insts, already_initialised, served, lookup, outsideReg>>

NextReg ==
    \/ \E c \in Range(GetAllSubclasses(subclassesOf, ExtensionClass)), root \in Roots :
          c.name \in ConcreteNames /\ Construct(c, root)
    \/ InitExtensionsReuse
    \/ InitExtensionsUnresolved
    \/ InitExtensionsCreate
    \/ PrerequisiteConstructed
    \/ ConstructDone

SpecReg == InitReg /\ [][NextReg]_vars

\* the subtypes of Extension: its direct subclasses and theirs
KnownSubtypes ==
    LET direct == Range(subclassesOf[ExtensionClass.id])
    IN  direct \cup UNION { Range(subclassesOf[c.id]) : c \in direct }

Carried(n) == \E c \in KnownSubtypes : c.name = n

\* C5: find_subclass of a name no subtype of Extension carries raises
\* NotImplementedError, and of a name some subtype carries returns a subtype
\* of that name; the construction of a unit whose requires names a
\* capability no subtype carries does not succeed.
C5_UnknownCapabilityIsNotImplemented ==
    /\ lookup.name # "" =>
          IF Carried(lookup.name)
          THEN /\ lookup.status = "ok"
               /\ lookup.cls \in KnownSubtypes
               /\ lookup.cls.name = lookup.name
          ELSE lookup.status = "NotImplementedError"
    /\ (/\ outcome.op = "construct"
        /\ cstack = <<>>
        /\ \E n \in Range(RequiresOf(outcome.cls)) : ~Carried(n))
       => outcome.status = "NotImplementedError"

\* Macros was constructed where no module defines Info
C5_Witness ==
    /\ cstack = <<>>
    /\ outcome.cls = "Macros"
    /\ outcome.status = "NotImplementedError"
    /\ lookup.name = "Info"
    /\ lookup.status = "NotImplementedError"
    /\ ~Carried("Info")

InstancesNamed(n) == { j \in DOMAIN insts : insts[j].name = n }

Greatest(S) == CHOOSE i \in S : \A j \in S : j <= i

\* C7 as stated: at most one instance of each type name is ever created,
\* the registry holds the first one, and every requester of the name gets it.
C7_OneInstancePerName ==
    /\ \A j, k \in DOMAIN insts : insts[j].name = insts[k].name => j = k
    /\ \A n \in DOMAIN already_initialised :
          already_initialised[n] = Least(InstancesNamed(n))
    /\ \A k \in DOMAIN served : served[k].got = Least(InstancesNamed(served[k].name))

\* C7 as amended: resolving a prerequisite never creates a second instance
\* of a type name (an instance made for a requester is the first of its
\* name), every requester receives the instance the registry holds for the
\* name at that moment, and the registry holds, for each name, the instance
\* of that name created last: a top-level construction always creates a new
\* instance and replaces the entry of its name.
C7_PrerequisiteCreatedOnceRegistryHoldsLatest ==
    /\ \A j \in DOMAIN insts :
          insts[j].origin = "prerequisite" =>
              \A k \in 1..(j - 1) : insts[k].name # insts[j].name
    /\ DOMAIN already_initialised = { insts[j].name : j \in DOMAIN insts }
    /\ \A n \in DOMAIN already_initialised :
          already_initialised[n] = Greatest(InstancesNamed(n))
    /\ \A k \in DOMAIN served :
          /\ served[k].got = served[k].held
          /\ insts[served[k].got].name = served[k].name
          /\ insts[served[k].by].extensions[served[k].name] = served[k].got

\* Macros was constructed twice: two instances of the name exist, the
\* registry holds the second, and both share the one Info instance
C7_Witness ==
    /\ cstack = <<>>
    /\ Len(insts) = 3
    /\ insts[1].name = "Macros"
    /\ insts[2].name = "Info"
    /\ insts[2].origin = "prerequisite"
    /\ insts[3].name = "Macros"
    /\ already_initialised["Macros"] = 3
    /\ insts[1].extensions["Info"] = 2
    /\ insts[3].extensions["Info"] = 2

\* the names reachable from the names of S along the requirement lists
RECURSIVE RequiredFrom(_)
RequiredFrom(S) ==
    LET T == S \cup UNION { Range(RequiresOf(n)) : n \in S }
    IN  IF T = S THEN S ELSE RequiredFrom(T)

OnCycle(n) == n \in RequiredFrom(Range(RequiresOf(n)))

\* the requires graph of the unit named n contains a cycle
HasCycle(n) == \E k \in RequiredFrom({n}) : OnCycle(k)

\* C14 as stated: the construction of a unit whose requires graph contains
\* a cycle never returns.
C14_CyclicConstructionNeverReturns ==
    (outcome.op = "construct" /\ outcome.status = "ok") => ~HasCycle(outcome.cls)

\* C14 as amended: a constructor registers its instance before it resolves
\* its prerequisites, so a requirement that closes a cycle is served with
\* the registered instance and no constructor of that name starts again:
\* the names under construction are distinct, the nesting is at most the
\* number of type names, and the instance handed out to close a cycle is
\* one whose constructor has not returned yet.
C14_CycleIsClosedByRegisteredInstance ==
    /\ \A j, k \in DOMAIN cstack :
          insts[cstack[j].inst].name = insts[cstack[k].inst].name => j = k
    /\ Len(cstack) <= Cardinality(ConcreteNames)
    /\ \A k \in DOMAIN cstack : Registered(already_initialised, insts[cstack[k].inst].name)
    /\ \A k \in DOMAIN served :
          (~served[k].created /\ served[k].active) => OnCycle(served[k].name)

\* Info and Storage require each other; the construction of Macros has
\* returned, and Storage holds the Info instance that required it
C14_Witness ==
    /\ outcome.op = "construct"
    /\ outcome.cls = "Macros"
    /\ outcome.status = "ok"
    /\ OnCycle("Info")
    /\ \E k \in DOMAIN served :
          /\ served[k].name = "Info"
          /\ insts[served[k].by].name = "Storage"
          /\ ~served[k].created
          /\ served[k].active
    /\ Cardinality({ j \in DOMAIN insts : insts[j].name = "Info" }) = 1

\* C20: every prerequisite instance a unit has resolved has the working
\* root of the unit, for any sequence of constructions.
C20_PrerequisiteSharesWorkingRoot ==
    \A k \in DOMAIN served :
        insts[served[k].got].root = insts[served[k].by].root

\* what the code keeps of C20: a prerequisite that is created for a unit
\* gets the working root of the unit; one that is taken from the registry
\* keeps the working root it was created with
C20_CreatedPrerequisiteSharesWorkingRoot ==
    \A k \in DOMAIN served :
        /\ served[k].created => insts[served[k].got].root = insts[served[k].by].root
        /\ ~served[k].created => served[k].got = served[k].held

\* C21: once a construction has ended with NotImplementedError, no entry of
\* the registry holds an instance created by that construction, and no
\* requester has been handed a unit that lacks one of its prerequisites.
C21_FailedConstructionLeavesRegistry ==
    /\ (outcome.op = "construct" /\ outcome.status = "NotImplementedError") =>
          \A n \in DOMAIN already_initialised : already_initialised[n] < outcome.inst
    /\ cstack = <<>> =>
          \A k \in DOMAIN served :
              Range(RequiresOf(served[k].name)) \subseteq DOMAIN insts[served[k].got].extensions

\* what the code does instead: the unit whose construction failed, and the
\* prerequisites created on the way, stay registered
C21_FailedUnitStaysRegistered ==
    (outcome.op = "construct" /\ outcome.status = "NotImplementedError") =>
        /\ already_initialised[outcome.cls] = outcome.inst
        /\ \A j \in outcome.inst..Len(insts) : already_initialised[insts[j].name] = j

\* the units whose parse calls are active, outermost last
ActiveUnits == [k \in DOMAIN stack |-> stack[k].unit]

\* C22: no parse call of a unit is made while a parse call of the same unit
\* is active, whatever the requirement lists, so the nesting of parse calls
\* is at most the number of units and every parse call returns.
C22_ParseNeverReentersUnit ==
    /\ \A j, k \in DOMAIN stack : ActiveUnits[j] = ActiveUnits[k] => j = k
    /\ Len(stack) <= Cardinality(ParseUnits)

\* what the code keeps of C22: the same when the requirement lists reachable
\* from the unit have no cycle; on a cycle of units that are not parsed the
\* calls nest until the interpreter's limit is reached
C22_ParseReentersOnlyOnCycle ==
    /\ (\A u \in ParseUnits : ~OnCycle(u)) =>
          /\ \A j, k \in DOMAIN stack : ActiveUnits[j] = ActiveUnits[k] => j = k
          /\ Len(stack) <= Cardinality(ParseUnits)
    /\ \A j, k \in DOMAIN stack :
          (j < k /\ ActiveUnits[j] = ActiveUnits[k]) =>
              /\ OnCycle(ActiveUnits[j])
              /\ \A i \in j..k : ~IsParsed(ActiveUnits[i])

(***************************************************************************)
(* SpecCC: CC.parse_cmd on the commands of a batch.  The text of a         *)
(* dependency file is the sequence of its lines.                           *)
(***************************************************************************)
\* " -" as an argument: read from standard input
StdIn == <<"-">>

\* cc.py:86: the name of the dependency file in temp_dir
DepsFileName(id) == ToString(id) \o "-deps.txt"

\* cc.py:88-91
AdditionalOpts(cf, id) ==
    IF cf.with_system_header_files
    THEN << <<"-Wp,-MD,", DepsFileName(id)>>, <<"-M">> >>
    ELSE << <<"-Wp,-MMD,", DepsFileName(id)>>, <<"-MM">> >>

\* cc.py:93-94
ChildCommand(cf, cmd) ==
    <<cmd.command>> \o (cmd.opts \o AdditionalOpts(cf, cmd.id)) \o cmd.in

ShouldInvokeWithInputs(cf, cmd) == cmd.in # <<>>

\* cc.py:97
ShouldInvoke(cf, cmd) ==
    StdIn \notin Range(ChildCommand(cf, cmd)) /\ cmd.in # <<>>

\* cc.py:107: re.match(r'[^:]+:(.+)', line).  [^:]+ ends before the first
\* colon and needs a character; .+ needs a character other than a newline.
MatchDepsHeader(line) ==
    LET colons == { i \in DOMAIN line : line[i] = ":" }
    IN  IF colons = {} THEN NoMatch
        ELSE LET c == Least(colons)
                 e == LineEnd(line, c + 1)
             IN  IF c < 2 \/ e < c + 1 THEN NoMatch
                 ELSE [ok |-> TRUE, g |-> << SubSeq(line, c + 1, e) >>]

\* cc.py:116: str.lstrip(' ')
RECURSIVE LStrip(_)
LStrip(s) == IF s # <<>> /\ Head(s) = " " THEN LStrip(Tail(s)) ELSE s

\* cc.py:117: str.rstrip(' \\\n')
RECURSIVE RStrip(_)
RStrip(s) ==
    IF s # <<>> /\ s[Len(s)] \in {" ", "\\", "\n"}
    THEN RStrip(SubSeq(s, 1, Len(s) - 1))
    ELSE s

\* cc.py:113-120: the loop over the dependency lines
RECURSIVE ParseDepLines(_)
ParseDepLines(lines) ==
    IF lines = <<>> THEN <<>>
    ELSE IF ":" \in Range(Head(lines)) THEN <<>>
    ELSE LET dep_line == RStrip(LStrip(Head(lines)))
         IN  (IF dep_line = <<>> THEN <<>> ELSE SplitOn(dep_line, " "))
             \o ParseDepLines(Tail(lines))

\* cc.py:106-120: the file is open
ParseDepsText(text) ==
    LET first == IF text = <<>> THEN <<>> ELSE Head(text)
        m == MatchDepsHeader(first)
    IN  IF ~m.ok
        THEN [status |-> "RuntimeError", deps |-> <<>>]
        ELSE [status |-> "ok", deps |-> ParseDepLines(<<m.g[1]>> \o Tail(text))]

DictDrop(d, k) == [x \in DOMAIN d \ {k} |-> d[x]]

\* cc.py:102-124: the token list, and the temp directory afterwards
ParseDeps(t, id) ==
    IF id \in DOMAIN t
    THEN LET r == ParseDepsText(t[id])
         IN  IF r.status = "ok"
             THEN [status |-> "ok", deps |-> r.deps, temp |-> DictDrop(t, id)]
             ELSE [status |-> r.status, deps |-> <<>>, temp |-> t]
    ELSE [status |-> "ok", deps |-> <<>>, temp |-> t]

DepsWithoutInputs(discovered, inputs) == Range(discovered)

\* cc.py:72: deps = set(self.__get_deps(cmd_id, parsed_cmd) + parsed_cmd["in"])
DepsOf(discovered, inputs) == Range(discovered \o inputs)

\* cc.py:132-136: the name of the dependency set of a command
DepsName(id) == Rel(<<"deps", ToString(id) \o ".json">>)

CmdName(id) == Rel(<<"cmds", ToString(id) \o ".json">>)

\* Common.dump_cmd_by_id: the command record is persisted on its own
DumpCmdById(d, f, cmd) ==
    DumpShard(d, f, "CC", [name |-> CmdName(cmd.id), doc |-> [t |-> "object", v |-> cmd]])

\* cc.py:126-130
StoreSrcFiles(st, deps, cwd) == st \cup { <<cwd, file>> : file \in deps }

NoFile == << <<"no file">> >>

\* what the compiler may leave in the dependency file
DepFiles ==
    { << <<"o", ":", " ", "a", " ", "h", "\n">> >>,
      << <<"o", ":", " ", "a", " ", "\\", "\n">>, <<" ", "h", "\n">> >>,
      << <<"o", ":", " ", "\\", "\n">> >>,
      << <<"o", ":", " ", "a", "\n">>, <<"p", ":", " ", "h", "\n">> >>,
      << <<"o", ":", "\n">>, <<" ", "a", "\n">> >>,
      << <<"a", " ", "h", "\n">> >>,
      <<>> }

Gcc == <<"g", "c", "c">>

CmdShapes ==
    { [opts |-> <<>>, in |-> << <<"a">> >>],
      [opts |-> << <<"-", "c">> >>, in |-> << <<"a">>, <<"b">> >>],
      [opts |-> <<>>, in |-> <<>>],
      [opts |-> <<>>, in |-> << StdIn >>],
      [opts |-> << StdIn >>, in |-> << <<"a">> >>] }

Cmd(id, shape) ==
    [id |-> id, command |-> Gcc, opts |-> shape.opts, in |-> shape.in, cwd |-> "src"]

Done(cmd, bad, invoked, discovered, deps, how) ==
    [cmd |-> cmd, bad |-> bad, invoked |-> invoked, discovered |-> discovered,
     deps |-> deps, outcome |-> how]

InitCCBatch ==
    /\ files = <<>>
    /\ dirs \in { Prefixes(Root), Prefixes(WorkDir("CC") \o <<"deps">>) }
    /\ InitFold
    /\ result = NoResult
    /\ nops = 0
    /\ requires = CodeRequires
    /\ raw = NoRaw
    /\ stack = <<>>
    /\ trace = <<>>
    /\ ncalls = 0
    /\ subclassesOf = FullTree
    /\ InitRegistry
    /\ conf \in { DefaultConf, [with_system_header_files |-> FALSE, store_deps |-> TRUE] }
    /\ temp = <<>>
    /\ done = <<>>
    /\ stored = {}

\* cc.py:60-66: the command is rejected
ParseCmdBad(cmd) ==
    /\ Len(done) < MaxCmds
    /\ cmd.id = Len(done) + 1
    /\ done' = Append(done, Done(cmd, TRUE, FALSE, <<>>, {}, "bad"))
    /\ UNCHANGED <<fsVars, conf, temp, stored, outsideCC>>

\* cc.py:60-78: the command is accepted; out is what the child compiler,
\* if it is run, leaves in the dependency file
ParseCmd(cmd, out) ==
    /\ Len(done) < MaxCmds
    /\ cmd.id = Len(done) + 1
    /\ LET invoke == ShouldInvoke(conf, cmd)
           t1 == IF invoke /\ out # NoFile THEN DictPut(temp, cmd.id, out) ELSE temp
           r == ParseDeps(t1, cmd.id)
           deps == DepsOf(r.deps, cmd.in)
       IN  IF r.status # "ok"
           THEN /\ temp' = r.temp
                /\ done' = Append(done, Done(cmd, FALSE, invoke, <<>>, {}, r.status))
                /\ UNCHANGED <<fsVars, stored>>
           ELSE \E doc \in Encodings(PySet(deps)) :
                  LET w == DumpData(dirs, files, "CC", PySet(deps), DepsName(cmd.id), doc)
                      c == DumpCmdById(w.dirs, w.files, cmd)
                  IN  IF w.status # "ok"
                      THEN /\ dirs' = w.dirs
                           /\ files' = w.files
                           /\ temp' = r.temp
                           /\ done' = Append(done,
                                  Done(cmd, FALSE, invoke, r.deps, deps, w.status))
                           /\ UNCHANGED stored
                      ELSE /\ dirs' = c.dirs
                           /\ files' = c.files
                           /\ temp' = r.temp
                           /\ stored' = IF conf.store_deps
                                        THEN StoreSrcFiles(stored, deps, cmd.cwd)
                                        ELSE stored
                           /\ done' = Append(done,
                                  Done(cmd, FALSE, invoke, r.deps, deps, "ok"))
    /\ UNCHANGED <<conf, outsideCC>>

NextCC ==
    \/ \E shape \in CmdShapes : ParseCmdBad(Cmd(Len(done) + 1, shape))
    \/ \E shape \in CmdShapes, out \in DepFiles \cup {NoFile} :
          ParseCmd(Cmd(Len(done) + 1, shape), out)

SpecCC == InitCCBatch /\ [][NextCC]_vars

DepsPath(id) == Resolve("CC", DepsName(id))

CmdPath(id) == Resolve("CC", CmdName(id))

ReadsStdIn(cmd) == StdIn \in Range(cmd.in) \/ StdIn \in Range(cmd.opts)

\* C1: for every command parse_cmd accepted, the dependency set it computed
\* holds every declared input, and so does the set persisted under the
\* command's identifier, whatever the dependency file held.
C1_DepsHoldDeclaredInputs ==
    \A k \in DOMAIN done :
        (~done[k].bad /\ done[k].outcome # "RuntimeError") =>
            /\ Range(done[k].cmd.in) \subseteq done[k].deps
            /\ DepsPath(k) \in DOMAIN files =>
                  /\ Range(done[k].cmd.in) \subseteq Range(files[DepsPath(k)].v)
                  /\ Range(files[DepsPath(k)].v) = done[k].deps

\* "gcc -c a b" was processed, the dependency file named a and h only, and
\* the persisted set holds b
C1_Witness ==
    \E k \in DOMAIN done :
        /\ done[k].cmd.in = << <<"a">>, <<"b">> >>
        /\ done[k].invoked
        /\ done[k].discovered = << <<"a">>, <<"h">> >>
        /\ done[k].outcome = "ok"
        /\ DepsPath(k) \in DOMAIN files
        /\ Range(files[DepsPath(k)].v) = { <<"a">>, <<"b">>, <<"h">> }

\* C6: a command that reads standard input or declares no input does not
\* run the child compiler, discovers no dependency, and its dependency set,
\* also as persisted, is the set of its declared inputs.
C6_NoChildForStdInOrNoInputs ==
    \A k \in DOMAIN done :
        (~done[k].bad /\ (ReadsStdIn(done[k].cmd) \/ done[k].cmd.in = <<>>)) =>
            /\ ~done[k].invoked
            /\ done[k].outcome # "RuntimeError"
            /\ done[k].discovered = <<>>
            /\ done[k].deps = Range(done[k].cmd.in)
            /\ DepsPath(k) \in DOMAIN files =>
                  Range(files[DepsPath(k)].v) = Range(done[k].cmd.in)

\* "gcc -" was processed and its persisted set is { "-" }
C6_Witness ==
    \E k \in DOMAIN done :
        /\ done[k].cmd.in = << StdIn >>
        /\ ~done[k].invoked
        /\ done[k].outcome = "ok"
        /\ DepsPath(k) \in DOMAIN files
        /\ files[DepsPath(k)].v = << StdIn >>

\* C8: for every command parse_cmd was called on and whose dependency file
\* was not malformed: if the command was accepted, its dependency set and
\* its command record are both persisted under its identifier; if it was
\* rejected, neither is.
C8_BothArtifactsPersisted ==
    \A k \in DOMAIN done :
        done[k].outcome # "RuntimeError" =>
            IF done[k].bad
            THEN DepsPath(k) \notin DOMAIN files /\ CmdPath(k) \notin DOMAIN files
            ELSE DepsPath(k) \in DOMAIN files /\ CmdPath(k) \in DOMAIN files

\* the part of C8 the code keeps: the two artifacts of a command are
\* persisted together or not at all, and never for a rejected command
C8_ArtifactsComeInPairs ==
    \A k \in DOMAIN done :
        /\ DepsPath(k) \in DOMAIN files <=> CmdPath(k) \in DOMAIN files
        /\ DepsPath(k) \in DOMAIN files <=> done[k].outcome = "ok"
        /\ done[k].bad => done[k].outcome = "bad"

(***************************************************************************)
(* SpecDeps: CC.__get_deps on the dependency file of one command, the      *)
(* child compiler left aside: the file is there, or not, when __parse_deps *)
(* looks for it.                                                           *)
(***************************************************************************)
\* first lines of a dependency file
HeaderLines ==
    { <<"o", ":", " ", "a", " ", "h", "\n">>,
      <<"o", ":", " ", "a", " ", "\\", "\n">>,
      <<"o", ":", " ", "\\", "\n">>,
      <<"o", ":", " ", "a", " ", " ", "h", "\n">>,
      <<"o", ":", " ", "c", ":", "a", " ", "h", "\n">>,
      <<"o", ":", "\n">>,
      <<"o", ":">>,
      <<"a", " ", "h", "\n">> }

\* the lines that follow
BodyLines ==
    { <<" ", "h", " ", "\\", "\n">>,
      <<" ", "h", " ", "k", "\n">>,
      <<" ", "\\", "\n">>,
      <<"\n">>,
      <<"p", ":", " ", "q", "\n">> }

RECURSIVE TextsOf(_)
TextsOf(n) ==
    IF n = 0 THEN { <<>> }
    ELSE LET shorter == TextsOf(n - 1)
         IN  shorter \cup { Append(t, l) : t \in { x \in shorter : Len(x) = n - 1 },
                                            l \in BodyLines }

\* the dependency files: none, an empty one, and a first line followed by
\* up to MaxDepLines lines
DepTexts == { <<>> } \cup { <<h>> \o t : h \in HeaderLines, t \in TextsOf(MaxDepLines) }

InitDeps ==
    /\ InitFS
    /\ InitFold
    /\ result = NoResult
    /\ nops = 0
    /\ requires = CodeRequires
    /\ raw = NoRaw
    /\ stack = <<>>
    /\ trace = <<>>
    /\ ncalls = 0
    /\ subclassesOf = FullTree
    /\ InitRegistry
    /\ conf = DefaultConf
    /\ temp \in { <<>> } \cup { DictPut(<<>>, 1, t) : t \in DepTexts }
    /\ done = <<>>
    /\ stored = {}

\* cc.py:80-83 and 102-124: the dependency file of command id is parsed
GetDeps(id) ==
    /\ done = <<>>
    /\ LET r == ParseDeps(temp, id)
       IN  /\ temp' = r.temp
           /\ done' = << [id |-> id, existed |-> id \in DOMAIN temp,
                          text |-> IF id \in DOMAIN temp THEN temp[id] ELSE <<>>,
                          status |-> r.status, deps |-> r.deps] >>
    /\ UNCHANGED <<fsVars, conf, stored, outsideCC>>

NextDeps == GetDeps(1)

SpecDeps == InitDeps /\ [][NextDeps]_vars

\* the rest of the first line after "<target>:", without the line end
HeaderRest(text) ==
    LET c == Least({ i \in DOMAIN Head(text) : Head(text)[i] = ":" })
    IN  SubSeq(Head(text), c + 1, LineEnd(Head(text), c + 1))

\* the first of the following lines that contains a colon, or the line
\* after the last
BlockEnd(text) ==
    Least({ k \in 2..Len(text) : ":" \in Range(text[k]) } \cup { Len(text) + 1 })

\* the path tokens of a line: leading spaces and the trailing run of
\* backslash, space and newline taken off, the rest cut at single spaces
TokensOf(line) ==
    LET inner == { i \in DOMAIN line : line[i] \notin {" ", "\\", "\n"} }
        from == Least({ i \in DOMAIN line : line[i] # " " })
    IN  IF inner = {} THEN <<>>
        ELSE SplitOn(SubSeq(line, from, Greatest(inner)), " ")

RECURSIVE TokensOfLines(_, _, _)
TokensOfLines(text, k, end) ==
    IF k >= end THEN <<>> ELSE TokensOf(text[k]) \o TokensOfLines(text, k + 1, end)

\* C15 as stated: the result of parsing a dependency file with a header is
\* the tokens of the rest of the header line followed by the tokens of the
\* following lines, in order, up to the first following line that contains
\* a colon.
C15_FirstTargetBlockIsTaken ==
    \A k \in DOMAIN done :
        (done[k].existed /\ done[k].status = "ok") =>
            done[k].deps = TokensOf(HeaderRest(done[k].text))
                           \o TokensOfLines(done[k].text, 2, BlockEnd(done[k].text))

\* what the code keeps of C15: the same, unless the rest of the header line
\* contains a colon itself; then the result is empty
C15_FirstTargetBlockUnlessRestHasColon ==
    \A k \in DOMAIN done :
        (done[k].existed /\ done[k].status = "ok") =>
            done[k].deps =
                IF ":" \in Range(HeaderRest(done[k].text)) THEN <<>>
                ELSE TokensOf(HeaderRest(done[k].text))
                     \o TokensOfLines(done[k].text, 2, BlockEnd(done[k].text))

\* a file of three lines, the third of another target, gave the tokens of
\* the first two
C15_BlockOfTwoLinesParsed ==
    \E k \in DOMAIN done :
        /\ done[k].text = << <<"o", ":", " ", "a", " ", "\\", "\n">>,
                             <<" ", "h", " ", "k", "\n">>,
                             <<"p", ":", " ", "q", "\n">> >>
        /\ done[k].deps = << <<"a">>, <<"h">>, <<"k">> >>

\* the first line of the text of a dependency file; an empty file has none
FirstLine(text) == IF text = <<>> THEN <<>> ELSE Head(text)

\* C16 as stated: when the dependency file exists, parsing raises the format
\* error exactly when its first line contains no colon; a first line made
\* of a target followed by a colon is accepted, whatever follows the colon.
C16_HeaderWithColonIsAccepted ==
    \A k \in DOMAIN done :
        done[k].existed =>
            (done[k].status = "RuntimeError" <=> ":" \notin Range(FirstLine(done[k].text)))

\* what the code keeps of C16: the first line is accepted exactly when a
\* colon that is not its first character is followed by a character other
\* than the line end; a first line without a colon raises the format error
C16_HeaderNeedsTextAfterColon ==
    \A k \in DOMAIN done :
        done[k].existed =>
            LET line == FirstLine(done[k].text)
                colons == { i \in DOMAIN line : line[i] = ":" }
            IN  /\ done[k].status \in {"ok", "RuntimeError"}
                /\ colons = {} => done[k].status = "RuntimeError"
                /\ done[k].status = "ok" <=>
                      /\ colons # {}
                      /\ Least(colons) > 1
                      /\ Least(colons) < Len(line)
                      /\ line[Least(colons) + 1] # "\n"

\* C17 as stated: once dependency discovery for a command has ended, with a
\* token list or with the format error, the dependency file of the command
\* is not in the scratch directory; a file that never existed is no error.
C17_DepsFileIsGoneAfterDiscovery ==
    \A k \in DOMAIN done :
        /\ done[k].id \notin DOMAIN temp
        /\ ~done[k].existed => done[k].status = "ok"

\* what the code keeps of C17: the file is removed when it was parsed, and
\* stays as it was when the format error was raised
C17_DepsFileIsGoneUnlessFormatError ==
    \A k \in DOMAIN done :
        /\ done[k].status = "ok" => done[k].id \notin DOMAIN temp
        /\ done[k].status = "RuntimeError" =>
              (done[k].id \in DOMAIN temp /\ temp[done[k].id] = done[k].text)
        /\ ~done[k].existed => (done[k].status = "ok" /\ done[k].deps = <<>>)

(***************************************************************************)
(* SpecExpand: Macros.__process_macros_expansions, one line at a time.     *)
(* A line is fed as [file, macro, entries]; the fold gets its text.  An    *)
(* entry is [text, value]: value holds the value the entry states, or is   *)
(* empty when the entry is not of the form " actual_argN=<value>".         *)
(***************************************************************************)
ArgEntries ==
    [x |-> [text |-> <<" ", ArgKw, "1", "=", "x">>, value |-> << <<"x">> >>],
     y |-> [text |-> <<" ", ArgKw, "1", "2", "=", "y", " ", "z">>,
            value |-> << <<"y", " ", "z">> >>],
     empty |-> [text |-> <<" ", ArgKw, "3", "=">>, value |-> << <<>> >>],
     junk |-> [text |-> <<" ", "j">>, value |-> <<>>],
     nodigit |-> [text |-> <<" ", ArgKw, "=", "x">>, value |-> <<>>],
     nospace |-> [text |-> <<ArgKw, "2", "=", "y">>, value |-> <<>>]]

\* the entry lists of an expansion line
ArgLists ==
    { <<>>, <<ArgEntries.x>>, <<ArgEntries.x, ArgEntries.y>>, <<ArgEntries.junk>>, <<ArgEntries.y, ArgEntries.junk, ArgEntries.x>>,
      <<ArgEntries.empty>>, <<ArgEntries.nodigit, ArgEntries.x>>, <<ArgEntries.x, ArgEntries.nospace>> }

RECURSIVE JoinEntries(_)
JoinEntries(entries) ==
    IF entries = <<>> THEN <<>>
    ELSE IF Len(entries) = 1 THEN entries[1].text
    ELSE entries[1].text \o <<",">> \o JoinEntries(Tail(entries))

\* the text of "<file> <macro><entries, comma-separated>" and its line end
ExpansionLine(e) == e.file \o Sp \o e.macro \o JoinEntries(e.entries) \o Nl

Expansions ==
    [file : { <<"a">>, <<"b", "c">> }, macro : { <<"M">>, <<"N">> }, entries : ArgLists]

\* macros.py:76-93: the next line of iter_macros_expansions is folded
ProcessExpansionLine(e) ==
    /\ Len(fed) < MaxExpLines
    /\ expand' = ExpandStep(expand, ExpansionLine(e))
    /\ fed' = Append(fed, e)
    /\ UNCHANGED <<outsideFold, define, typedefs>>

NextExpand == \E e \in Expansions : ProcessExpansionLine(e)

SpecExpand == InitDefine /\ [][NextExpand]_vars

\* the positions of the lines fed for the pair (f, m)
OccurrencesOf(f, m) == { i \in DOMAIN fed : fed[i].file = f /\ fed[i].macro = m }

RECURSIVE ValuesOf(_)
ValuesOf(entries) ==
    IF entries = <<>> THEN <<>> ELSE Head(entries).value \o ValuesOf(Tail(entries))

\* C18: for every pair (file, macro), expand[file][macro].args holds one
\* list per line fed for the pair, in input order; the list of a line holds
\* the values of its entries of the form " actual_argN=<value>", in order,
\* the other entries dropped; a line without entries gives an empty list.
C18_ExpandFoldKeepsOneListPerOccurrence ==
    \A f \in { e.file : e \in Expansions }, m \in { e.macro : e \in Expansions } :
        LET occ == OccurrencesOf(f, m)
        IN  IF occ = {}
            THEN f \in DOMAIN expand => m \notin DOMAIN expand[f]
            ELSE /\ f \in DOMAIN expand
                 /\ m \in DOMAIN expand[f]
                 /\ DOMAIN expand[f][m] = {"args"}
                 /\ expand[f][m].args =
                        [k \in 1..Cardinality(occ) |-> ValuesOf(fed[NthOf(occ, k)].entries)]

\* "a M" was fed with three entries, one of them dropped, and then without
\* entries
C18_Witness ==
    /\ Len(fed) = 2
    /\ fed[1] = [file |-> <<"a">>, macro |-> <<"M">>, entries |-> <<ArgEntries.y, ArgEntries.junk, ArgEntries.x>>]
    /\ fed[2] = [file |-> <<"a">>, macro |-> <<"M">>, entries |-> <<>>]
    /\ expand[<<"a">>][<<"M">>].args = << << <<"y", " ", "z">>, <<"x">> >>, <<>> >>

(***************************************************************************)
(* SpecLoad: CC.load_all_cmds over the stored commands of a batch.  The    *)
(* call is [with_opts, with_deps, compile_only, next]: its arguments and   *)
(* the position of its loop in the stored commands.                        *)
(***************************************************************************)
\* cc.py:30-34
file_extensions ==
    << <<".", "c">>, <<".", "i">>, <<".", "h">>,
       <<"C">>, <<".", "c", "c">>, <<".", "c", "p", "p">>, <<".", "c", "x", "x">>,
       <<".", "c", "+", "+">>, <<".", "h">>, <<".", "h", "h">>, <<".", "h", "p", "p">>,
       <<".", "h", "x", "x">>, <<".", "h", "+", "+">>,
       <<".", "s">>, <<".", "S">>, <<".", "a", "s", "m">> >>

\* os.path.basename: what follows the last "/"
Basename(p) ==
    LET seps == { i \in DOMAIN p : p[i] = "/" }
    IN  IF seps = {} THEN p ELSE SubSeq(p, Greatest(seps) + 1, Len(p))

\* os.path.splitext(name)[1]: from the last dot on, when a character other
\* than a dot comes before it
SplitExt(name) ==
    LET dots == { i \in DOMAIN name : name[i] = "." }
    IN  IF dots = {} THEN <<>>
        ELSE LET d == Greatest(dots)
             IN  IF \E i \in 1..(d - 1) : name[i] # "."
                 THEN SubSeq(name, d, Len(name))
                 ELSE <<>>

\* cc.py:144: the suffix of the input is in the table
IsSource(cmd_in) == SplitExt(Basename(cmd_in)) \in Range(file_extensions)

\* the input lists of the stored commands
InputLists ==
    LET ac == <<"a", ".", "c">>
        bC == <<"d", "/", "b", ".", "C">>
        mo == <<"m", ".", "o">>
        xh == <<"x", ".", "h", "p", "p">>
        sS == <<"s", ".", "S">>
        nn == <<"d", ".", "d", "/", "n">>
    IN  { <<>>, <<ac>>, <<bC>>, <<mo>>, <<xh>>, <<sS>>, <<nn>>,
          <<ac, xh>>, <<ac, mo>>, <<mo, ac>>, <<ac, bC>> }

InitLoad ==
    /\ InitFS
    /\ InitFold
    /\ nops = 0
    /\ requires = CodeRequires
    /\ raw = NoRaw
    /\ stack = <<>>
    /\ trace = <<>>
    /\ ncalls = 0
    /\ subclassesOf = FullTree
    /\ InitRegistry
    /\ conf = DefaultConf
    /\ temp = <<>>
    /\ stored = {}
    /\ \E n \in 1..MaxLoad : done \in [1..n -> InputLists]
    /\ result \in [with_opts : BOOLEAN, with_deps : BOOLEAN, compile_only : BOOLEAN,
                   next : {1}]

\* cc.py:142-152: one iteration of the loop over the stored commands; the
\* id of a command is its position
LoadNextCmd ==
    /\ result.next <= Len(done)
    /\ LET id == result.next
           cmd_in == done[id]
       IN  trace' =
             IF result.compile_only /\ \E k \in DOMAIN cmd_in : ~IsSource(cmd_in[k])
             THEN Append(trace, Event("continue", "CC", id))
             ELSE trace
                  \o (IF result.with_opts THEN << Event("load_opts", "CC", id) >> ELSE <<>>)
                  \o (IF result.with_deps THEN << Event("load_deps", "CC", id) >> ELSE <<>>)
                  \o << Event("yield", "CC", id) >>
    /\ result' = [result EXCEPT !.next = @ + 1]
    /\ UNCHANGED <<fsVars, nops, foldVars, requires, raw, stack, ncalls, regVars, ccVars>>

SpecLoad == InitLoad /\ [][LoadNextCmd]_vars

\* the suffixes of C, C++ and assembly sources and headers
RecognizedSuffixes ==
    { <<".", "c">>, <<".", "i">>, <<".", "h">>,
      <<".", "C">>, <<".", "c", "c">>, <<".", "c", "p", "p">>, <<".", "c", "x", "x">>,
      <<".", "c", "+", "+">>, <<".", "h", "h">>, <<".", "h", "p", "p">>,
      <<".", "h", "x", "x">>, <<".", "h", "+", "+">>,
      <<".", "s">>, <<".", "S">>, <<".", "a", "s", "m">> }

Yielded(id) == \E p \in DOMAIN trace : trace[p] = Event("yield", "CC", id)

Loaded(id) ==
    \E p \in DOMAIN trace : trace[p].arg = id /\ trace[p].ev \in {"load_opts", "load_deps"}

\* C19 as stated: with compile_only, a stored command the loop has passed
\* is yielded exactly when each of its inputs has a suffix of the table of
\* C, C++ and assembly suffixes, ".C" among them; nothing is loaded for a
\* command that is not yielded.
C19_CompileOnlyKeepsRecognizedSources ==
    result.compile_only =>
        \A id \in 1..(result.next - 1) :
            /\ Yielded(id) <=>
                  \A k \in DOMAIN done[id] :
                      SplitExt(Basename(done[id][k])) \in RecognizedSuffixes
            /\ ~Yielded(id) => ~Loaded(id)

\* what the code keeps of C19: the same for the suffixes of the table other
\* than ".C"; a command with an input of suffix ".C" is not yielded
C19_CompileOnlyKeepsSourcesButUpperC ==
    result.compile_only =>
        \A id \in 1..(result.next - 1) :
            /\ Yielded(id) <=>
                  \A k \in DOMAIN done[id] :
                      SplitExt(Basename(done[id][k])) \in RecognizedSuffixes \ { <<".", "C">> }
            /\ ~Yielded(id) => ~Loaded(id)

====
